---- MODULE Spec2Model ----
(***************************************************************************)
(* Node evaluation and OLS weight fitting of RGP/node.py.                  *)
(*                                                                         *)
(* A number is a pair <<n, d>>: the rational n/d when d > 0 (kept in       *)
(* lowest terms), and a non-finite float when d = 0: <<1,0>> is +inf,      *)
(* <<-1,0>> is -inf and <<0,0>> is nan.  A Signal is a sequence of         *)
(* numbers, one per row; the Python value None is the empty sequence.      *)
(***************************************************************************)
EXTENDS Integers, Sequences, FiniteSets, TLC

VARIABLES nodes, last, prev, hist, evals, cw

vars == <<nodes, last, prev, hist, evals, cw>>

---------------------------------------------------------------------------
(* Floating-point numbers, exact on the finite values.                     *)

None == <<>>

NaN == <<0, 0>>

PInf == <<1, 0>>

NInf == <<-1, 0>>

Num(i) == <<i, 1>>

AbsInt(i) == IF i < 0 THEN -i ELSE i

SignInt(i) == IF i < 0 THEN -1 ELSE IF i = 0 THEN 0 ELSE 1

RECURSIVE Gcd(_, _)
Gcd(a, b) == IF b = 0 THEN a ELSE Gcd(b, a % b)

\* the rational n/d, d # 0, in lowest terms with a positive denominator
Norm(n, d) ==
    LET g == Gcd(AbsInt(n), AbsInt(d))
        s == IF d < 0 THEN -1 ELSE 1
    IN  <<(s * n) \div g, (s * d) \div g>>

Hundredths(n) == Norm(n, 100)

\* np.isfinite on one entry
IsFinite(x) == x[2] # 0

IsNaN(x) == x = NaN

IsZero(x) == x[2] # 0 /\ x[1] = 0

\* x * y of two floats: nan propagates, inf * 0 is nan
NumMul(x, y) ==
    IF IsNaN(x) \/ IsNaN(y) THEN NaN
    ELSE IF ~IsFinite(x) \/ ~IsFinite(y)
         THEN IF IsZero(x) \/ IsZero(y) THEN NaN
              ELSE <<SignInt(x[1]) * SignInt(y[1]), 0>>
         ELSE Norm(x[1] * y[1], x[2] * y[2])

\* x + y of two floats: inf + (-inf) is nan
NumAdd(x, y) ==
    IF IsNaN(x) \/ IsNaN(y) THEN NaN
    ELSE IF ~IsFinite(x) /\ ~IsFinite(y) THEN (IF x = y THEN x ELSE NaN)
    ELSE IF ~IsFinite(x) THEN x
    ELSE IF ~IsFinite(y) THEN y
    ELSE Norm(x[1] * y[2] + y[1] * x[2], x[2] * y[2])

NumNeg(x) == <<-x[1], x[2]>>

\* x / y of two floats without raising: x/0 is +-inf, 0/0 and inf/inf are nan
NumDiv(x, y) ==
    IF IsNaN(x) \/ IsNaN(y) THEN NaN
    ELSE IF ~IsFinite(y) THEN (IF ~IsFinite(x) THEN NaN ELSE Num(0))
    ELSE IF ~IsFinite(x)
         THEN <<SignInt(x[1]) * (IF y[1] < 0 THEN -1 ELSE 1), 0>>
    ELSE IF y[1] = 0
         THEN (IF x[1] = 0 THEN NaN ELSE <<SignInt(x[1]), 0>>)
    ELSE Norm(x[1] * y[2], x[2] * y[1])

---------------------------------------------------------------------------
(* Signals: elementwise arithmetic and the sum of the entries.             *)

SigMul(a, b) == [i \in 1..Len(a) |-> NumMul(a[i], b[i])]

SigAdd(a, b) == [i \in 1..Len(a) |-> NumAdd(a[i], b[i])]

SigDiv(a, b) == [i \in 1..Len(a) |-> NumDiv(a[i], b[i])]

Scale(a, w) == [i \in 1..Len(a) |-> NumMul(a[i], w)]

RECURSIVE SigSum(_)
SigSum(a) == IF Len(a) = 0 THEN Num(0) ELSE NumAdd(a[1], SigSum(Tail(a)))

---------------------------------------------------------------------------
(* Variable.compute_weight: OLS of r * w = ytr through the normal          *)
(* equations A w = b.                                                      *)

\* b = np.array(map(lambda f: (f * self._ytr).sum(), r)): built from the
\* regressors as they are passed in, before the loop multiplies by the mask
TargetVector(r, ytr) == [i \in 1..Len(r) |-> SigSum(SigMul(r[i], ytr))]

\* the value of r[j] when the loop reads it in row i: r[i] = r[i] * mask has
\* run for every index up to i and for none after i
RegressorAt(r, mask, i, j) == IF j <= i THEN SigMul(r[j], mask) ELSE r[j]

\* A[i, j] = (r[i] * r[j]).sum() for j >= i, mirrored into A[j, i]
GramMatrix(r, mask) ==
    [i \in 1..Len(r) |->
        [j \in 1..Len(r) |->
            LET lo == IF i <= j THEN i ELSE j
                hi == IF i <= j THEN j ELSE i
            IN  SigSum(SigMul(RegressorAt(r, mask, lo, lo),
                              RegressorAt(r, mask, lo, hi)))]]

\* np.isfinite(A).all() and np.isfinite(b).all()
AllFinite(A, b) ==
    /\ \A i \in 1..Len(A) : \A j \in 1..Len(A) : IsFinite(A[i][j])
    /\ \A i \in 1..Len(b) : IsFinite(b[i])

DropAt(s, k) == [i \in 1..(Len(s) - 1) |-> IF i < k THEN s[i] ELSE s[i + 1]]

Minor(M, j) == [i \in 1..(Len(M) - 1) |-> DropAt(M[i + 1], j)]

\* determinant by expansion along the first row, from column j on
RECURSIVE DetFrom(_, _)
DetFrom(M, j) ==
    IF Len(M) = 1 THEN M[1][1]
    ELSE IF j > Len(M) THEN Num(0)
    ELSE LET t == NumMul(M[1][j], DetFrom(Minor(M, j), 1))
         IN  NumAdd(IF j % 2 = 1 THEN t ELSE NumNeg(t), DetFrom(M, j + 1))

Det(M) == DetFrom(M, 1)

ReplaceColumn(A, c, b) ==
    [i \in 1..Len(A) |-> [j \in 1..Len(A) |-> IF j = c THEN b[i] ELSE A[i][j]]]

\* Cramer's rule with d the determinant of A
Cramer(A, b, d) == [c \in 1..Len(A) |-> NumDiv(Det(ReplaceColumn(A, c, b)), d)]

\* faulty variant: the solver divides without noticing a singular matrix
SolveUnchecked(A, b) == [status |-> "ok", w |-> Cramer(A, b, Det(A))]

SolveWith(A, b, d) ==
    IF d = Num(0)
    THEN [status |-> "none", w |-> None]
    ELSE [status |-> "ok", w |-> Cramer(A, b, d)]

\* np.linalg.solve(A, b) of a finite system: LinAlgError (caught, None) when
\* A is singular, else the unique solution
Solve(A, b) == SolveWith(A, b, Det(A))

Solved(s, A, b) == [status |-> s.status, w |-> s.w, A |-> A, b |-> b]

\* lines 95-101: the finiteness test, then the solve
SolveSystem(A, b) ==
    IF ~AllFinite(A, b)
    THEN [status |-> "none", w |-> None, A |-> A, b |-> b]
    ELSE Solved(Solve(A, b), A, b)

\* status "ok" with the coefficients, "none" for a returned None, "raise"
\* when an operand of the arithmetic is None (TypeError)
compute_weight(r, ytr, mask) ==
    IF ytr = None \/ mask = None \/ \E i \in 1..Len(r) : r[i] = None
    THEN [status |-> "raise", w |-> None, A |-> None, b |-> None]
    ELSE SolveSystem(GramMatrix(r, mask), TargetVector(r, ytr))

---------------------------------------------------------------------------
(* The Signal methods the nodes call.  fabs and sq are exact; the others   *)
(* are tabulated, to two decimals, at the values the contexts below hold.  *)

Positive(x) == x[1] > 0

fabs(x) == <<AbsInt(x[1]), x[2]>>

sq(x) == NumMul(x, x)

exp(x) ==
    CASE x = NaN -> NaN [] x = PInf -> PInf [] x = NInf -> Num(0)
      [] x = Num(0) -> Num(1)
      [] x = Num(1) -> Hundredths(272)
      [] x = Num(2) -> Hundredths(739)

sqrt(x) ==
    CASE x = NaN -> NaN [] x = PInf -> PInf [] x = NInf -> NaN
      [] x = Num(0) -> Num(0)
      [] x = Num(1) -> Num(1)
      [] x = Num(2) -> Hundredths(141)

sin(x) ==
    CASE x = NaN -> NaN [] x = PInf -> NaN [] x = NInf -> NaN
      [] x = Num(0) -> Num(0)
      [] x = Num(1) -> Hundredths(84)
      [] x = Num(2) -> Hundredths(91)

cos(x) ==
    CASE x = NaN -> NaN [] x = PInf -> NaN [] x = NInf -> NaN
      [] x = Num(0) -> Num(1)
      [] x = Num(1) -> Hundredths(54)
      [] x = Num(2) -> Hundredths(-42)

ln(x) ==
    CASE x = NaN -> NaN [] x = PInf -> PInf [] x = NInf -> NaN
      [] x = Num(0) -> NInf
      [] x = Num(1) -> Num(0)
      [] x = Num(2) -> Hundredths(69)

sigmoid(x) ==
    CASE x = NaN -> NaN [] x = PInf -> Num(1) [] x = NInf -> Num(0)
      [] x = Num(0) -> Hundredths(50)
      [] x = Num(1) -> Hundredths(73)
      [] x = Num(2) -> Hundredths(88)

\* elementwise: b where a is positive, else c
if_func(a, b, c) == [i \in 1..Len(a) |-> IF Positive(a[i]) THEN b[i] ELSE c[i]]

---------------------------------------------------------------------------
(* Nodes.                                                                  *)

UnaryVariants == {"Fabs", "Exp", "Sqrt", "Sin", "Cos", "Ln", "Sq", "Sigmoid"}

Variants == {"Variable", "Add", "Mul", "Div", "If"} \cup UnaryVariants

\* the variants whose eval feeds compute_weight the children's Signals
\* themselves; every other variant computes its raw transform r first
FitsOnChildren == {"Variable", "Add"}

\* a weight is its entries together with its shape: a bare number
\* ("scalar"), an array ("vector"), or None ("none")
NoWeight == [shape |-> "none", v |-> None]

Scalar(x) == [shape |-> "scalar", v |-> <<x>>]

Vector(w) == [shape |-> "vector", v |-> w]

\* the class attribute nargs (Variable has none)
nargs(variant) ==
    CASE variant = "Variable" -> 0
      [] variant = "Add" -> 5
      [] variant \in {"Mul", "Div"} -> 2
      [] variant \in UnaryVariants -> 1
      [] variant = "If" -> 3

\* Variable.__init__; a child list of one index and the bare index are the
\* same one-entry sequence here
New(variant, variable, weight, ytr, mask) ==
    [variant |-> variant, variable |-> variable, weight |-> weight,
     hy |-> None, hy_test |-> None, ytr |-> ytr, mask |-> mask,
     fitness |-> None, fitness_vs |-> None, position |-> 0,
     nargs |-> nargs(variant)]

\* Variable.tostore and Function.tostore
tostore(n) ==
    [New(n.variant, n.variable, n.weight, None, None)
        EXCEPT !.position = n.position, !.fitness = n.fitness,
               !.fitness_vs = n.fitness_vs, !.nargs = n.nargs]

RECURSIVE cumsum(_)
cumsum(r) == IF Len(r) = 1 THEN r[1] ELSE SigAdd(cumsum(SubSeq(r, 1, Len(r) - 1)), r[Len(r)])

RECURSIVE cumprod(_)
cumprod(r) == IF Len(r) = 1 THEN r[1] ELSE SigMul(cumprod(SubSeq(r, 1, Len(r) - 1)), r[Len(r)])

\* the raw transform r of the variants that scale one composite Signal
Raw(variant, s) ==
    CASE variant = "Mul" -> cumprod(s)
      [] variant = "Div" -> SigDiv(s[1], s[2])
      [] variant = "If" -> if_func(s[1], s[2], s[3])
      [] variant = "Fabs" -> [i \in 1..Len(s[1]) |-> fabs(s[1][i])]
      [] variant = "Exp" -> [i \in 1..Len(s[1]) |-> exp(s[1][i])]
      [] variant = "Sqrt" -> [i \in 1..Len(s[1]) |-> sqrt(s[1][i])]
      [] variant = "Sin" -> [i \in 1..Len(s[1]) |-> sin(s[1][i])]
      [] variant = "Cos" -> [i \in 1..Len(s[1]) |-> cos(s[1][i])]
      [] variant = "Ln" -> [i \in 1..Len(s[1]) |-> ln(s[1][i])]
      [] variant = "Sq" -> [i \in 1..Len(s[1]) |-> sq(s[1][i])]
      [] variant = "Sigmoid" -> [i \in 1..Len(s[1]) |-> sigmoid(s[1][i])]

\* the regressors eval passes to compute_weight
Regressors(variant, s) == IF variant \in FitsOnChildren THEN s ELSE <<Raw(variant, s)>>

\* the weighted output from the children's Signals s: X.hy * weight for
\* Variable, cumsum over zip(X, weight) for Add, r * weight otherwise
Output(variant, s, weight) ==
    CASE variant = "Variable" -> Scale(s[1], weight.v[1])
      [] variant = "Add" ->
            LET m == IF Len(s) < Len(weight.v) THEN Len(s) ELSE Len(weight.v)
            IN  cumsum([i \in 1..m |-> Scale(s[i], weight.v[i])])
      [] OTHER -> Scale(Raw(variant, s), weight.v[1])

\* what eval stores after a fit: Variable and Add keep the solver's array,
\* every other variant keeps w[0]
StoreWeight(variant, w) ==
    IF variant \in FitsOnChildren THEN Vector(w) ELSE Scalar(w[1])

\* faulty variant: the weight is fitted on every call
NeedsFitAlways(n) == TRUE

\* if self.weight is None
NeedsFit(n) == n.weight.shape = "none"

Fitted(n, c) == [n EXCEPT !.weight = StoreWeight(n.variant, c.w)]

\* faulty variant: a failed solve leaves a default weight behind
FitDefaultsWeightOn(n, c) ==
    [status |-> c.status,
     node |-> IF c.status = "ok" THEN Fitted(n, c)
              ELSE IF c.status = "none" THEN [n EXCEPT !.weight = Scalar(Num(1))]
              ELSE n]

FitDefaultsWeight(n, regs) == FitDefaultsWeightOn(n, compute_weight(regs, n.ytr, n.mask))

\* faulty variant: the regressor is stored as hy before the solve is tested
FitStoresHyFirstOn(n, regs, c) ==
    [status |-> c.status,
     node |-> IF c.status = "ok" THEN Fitted(n, c)
              ELSE IF c.status = "none" THEN [n EXCEPT !.hy = regs[1]]
              ELSE n]

FitStoresHyFirst(n, regs) == FitStoresHyFirstOn(n, regs, compute_weight(regs, n.ytr, n.mask))

FitOn(n, c) ==
    [status |-> c.status, node |-> IF c.status = "ok" THEN Fitted(n, c) ELSE n]

\* w = self.compute_weight(...); if w is None: return False; self.weight = ...
Fit(n, regs) == FitOn(n, compute_weight(regs, n.ytr, n.mask))

ChildHy(n, X) == [i \in 1..Len(n.variable) |-> X[n.variable[i]].hy]

ChildHyTest(n, X) == [i \in 1..Len(n.variable) |-> X[n.variable[i]].hy_test]

\* the Signal each eval compares with None before it writes hy_test: the
\* child's for Variable and the unary variants, the first child's for Add,
\* Mul and If, and slot 0 of the context for Div
TestGuard(n, X) ==
    IF n.variant = "Div" THEN X[0].hy_test ELSE X[n.variable[1]].hy_test

\* the result of an eval call: outcome "success" (True), "failure" (False)
\* or "raise" (an exception leaves the call), the node as the call leaves it,
\* and whether compute_weight was called
Result(outcome, n, solved) == [outcome |-> outcome, node |-> n, solved |-> solved]

\* the end of eval, hy written: hy_test when the guard is not None
WriteHyTest(n, X, solved) ==
    IF TestGuard(n, X) = None
    THEN Result("success", n, solved)
    ELSE IF \E i \in 1..Len(n.variable) : X[n.variable[i]].hy_test = None
    THEN Result("raise", n, solved)
    ELSE Result("success",
                [n EXCEPT !.hy_test = Output(n.variant, ChildHyTest(n, X), n.weight)],
                solved)

\* self.hy = ..., with the weight in place
WriteHy(n, X, solved) ==
    WriteHyTest([n EXCEPT !.hy = Output(n.variant, ChildHy(n, X), n.weight)], X, solved)

\* the weight was None and compute_weight has been called
AfterFit(n, X, fit) ==
    IF fit.status = "raise" THEN Result("raise", n, TRUE)
    ELSE IF fit.status = "none" THEN Result("failure", fit.node, TRUE)
    ELSE WriteHy(fit.node, X, TRUE)

MissingChild(n, X) == \E i \in 1..Len(n.variable) : X[n.variable[i]].hy = None

\* eval(X)
eval(n, X) ==
    IF n.variant \notin FitsOnChildren /\ MissingChild(n, X)
    THEN Result("raise", n, FALSE)
    ELSE IF NeedsFit(n)
    THEN AfterFit(n, X, Fit(n, Regressors(n.variant, ChildHy(n, X))))
    ELSE IF MissingChild(n, X)
    THEN Result("raise", n, FALSE)
    ELSE WriteHy(n, X, FALSE)

---------------------------------------------------------------------------
(* Bounds and the inputs the calls are drawn from.                         *)

\* eval calls in one behaviour
MaxEvals == 3

\* regressors in one compute_weight call of the solver specification
MaxRegs == 2

Sig(a, b) == <<Num(a), Num(b)>>

Slot(h, t) == [hy |-> h, hy_test |-> t]

Arena(s0, s1, s2) == [k \in 0..2 |-> <<s0, s1, s2>>[k + 1]]

\* the contexts X an eval call may be given: three slots, each an
\* already-evaluated node (hy, and hy_test when a test split was given), a
\* node not evaluated yet (hy None), or a node holding non-finite values
Contexts ==
    << \* 1: every slot evaluated, no test split
       Arena(Slot(Sig(1, 2), None), Slot(Sig(1, 2), None), Slot(Sig(2, 1), None)),
       \* 2: as 1, every slot with a test split
       Arena(Slot(Sig(1, 2), Sig(2, 0)), Slot(Sig(1, 2), Sig(2, 0)),
             Slot(Sig(2, 1), Sig(1, 1))),
       \* 3: as 1, a test split on slot 0 only
       Arena(Slot(Sig(1, 2), Sig(2, 0)), Slot(Sig(1, 2), None), Slot(Sig(2, 1), None)),
       \* 4: as 1, a test split on slots 1 and 2 only
       Arena(Slot(Sig(1, 2), None), Slot(Sig(1, 2), Sig(2, 0)),
             Slot(Sig(2, 1), Sig(1, 1))),
       \* 5: other training Signals, no test split
       Arena(Slot(Sig(2, 1), None), Slot(Sig(2, 1), None), Slot(Sig(1, 2), None)),
       \* 6: slot 1 not evaluated
       Arena(Slot(Sig(1, 2), None), Slot(None, None), Slot(Sig(2, 1), None)),
       \* 7: non-finite values in slots 0 and 1
       Arena(Slot(<<Num(1), NaN>>, None), Slot(<<NaN, Num(1)>>, None),
             Slot(Sig(2, 1), None)) >>

\* the child references each variant is constructed with
ChildrenOf(variant) ==
    CASE variant = "Variable" -> <<1>>
      [] variant \in UnaryVariants -> <<1>>
      [] variant = "Add" -> <<1, 2>>
      [] variant = "Mul" -> <<0, 1>>
      [] variant = "Div" -> <<1, 2>>
      [] variant = "If" -> <<0, 1, 2>>

\* a weight passed to the constructor: np.ones(2) for Add, a number otherwise
PresetWeight(variant) ==
    IF variant = "Add" THEN Vector(<<Num(1), Num(1)>>) ELSE Scalar(Num(2))

\* the constructor arguments (weight, ytr, mask): a node to be fitted without
\* its training target and mask, with them (every row valid, or the second
\* row masked out), and a node restored with a weight
Constructions(variant) ==
    { <<NoWeight, None, None>>,
      <<NoWeight, Sig(1, 2), Sig(1, 1)>>,
      <<NoWeight, Sig(1, 2), Sig(1, 0)>>,
      <<PresetWeight(variant), None, None>> }

\* the solver specification's regressors, targets and masks
SolverSignals ==
    { Sig(1, 2), Sig(2, 4), Sig(2, 1), Sig(0, 3), Sig(0, 0),
      <<Num(1), NaN>>, <<PInf, Num(1)>> }

SolverTargets == { Sig(1, 2), Sig(2, -1), Sig(0, 1), <<Num(1), NaN>> }

SolverMasks == { Sig(1, 1), Sig(1, 0), Sig(0, 1) }

RegressorLists == UNION { [1..k -> SolverSignals] : k \in 1..MaxRegs }

---------------------------------------------------------------------------
(* State.  nodes[1] is the node under evaluation and nodes[2], when there  *)
(* is one, its tostore() snapshot.  last and prev record the two most      *)
(* recent eval calls, hist what each instance's calls have returned, cw    *)
(* the most recent direct compute_weight call.                             *)

NoNode ==
    [variant |-> "none", variable |-> <<>>, weight |-> NoWeight,
     hy |-> None, hy_test |-> None, ytr |-> None, mask |-> None,
     fitness |-> None, fitness_vs |-> None, position |-> 0, nargs |-> 0]

NoCall ==
    [inst |-> 0, ctx |-> 0, outcome |-> "none", solved |-> FALSE,
     pre |-> NoNode, post |-> NoNode]

NoHistory == [failed |-> FALSE, okctx |-> 0, lastout |-> "none"]

NoSolve ==
    [called |-> FALSE, r |-> <<>>, ytr |-> None, mask |-> None,
     status |-> "none", w |-> None, A |-> None, b |-> None]

Init ==
    /\ \E variant \in Variants :
         \E c \in Constructions(variant) :
            nodes = <<New(variant, ChildrenOf(variant), c[1], c[2], c[3])>>
    /\ last = NoCall
    /\ prev = NoCall
    /\ hist = <<NoHistory>>
    /\ evals = 0
    /\ cw = NoSolve

\* the effect of nodes[i].eval(Contexts[c]) with result res
Record(i, c, res) ==
    /\ nodes' = [nodes EXCEPT ![i] = res.node]
    /\ last' = [inst |-> i, ctx |-> c, outcome |-> res.outcome,
                solved |-> res.solved, pre |-> nodes[i], post |-> res.node]
    /\ hist' = [hist EXCEPT ![i] =
                  [failed |-> @.failed \/ res.outcome = "failure",
                   okctx |-> IF res.outcome = "success" THEN c ELSE @.okctx,
                   lastout |-> res.outcome]]

\* nodes[i].eval(Contexts[c])
Eval(i, c) ==
    /\ evals < MaxEvals
    /\ Record(i, c, eval(nodes[i], Contexts[c]))
    /\ prev' = last
    /\ evals' = evals + 1
    /\ UNCHANGED cw

\* nodes[1].tostore(): the snapshot is a new instance
Tostore ==
    /\ nodes' = <<nodes[1], tostore(nodes[1])>>
    /\ hist' = <<hist[1], NoHistory>>
    /\ UNCHANGED <<last, prev, evals, cw>>

Next ==
    \/ \E i \in 1..Len(nodes) : \E c \in 1..Len(Contexts) : Eval(i, c)
    \/ Tostore

Spec == Init /\ [][Next]_vars

\* compute_weight on its own: the inputs are drawn at the start and the call
\* is applied to them once
SolverInit ==
    /\ nodes = <<>>
    /\ last = NoCall
    /\ prev = NoCall
    /\ hist = <<>>
    /\ evals = 0
    /\ \E r \in RegressorLists : \E ytr \in SolverTargets : \E mask \in SolverMasks :
          cw = [NoSolve EXCEPT !.r = r, !.ytr = ytr, !.mask = mask]

RecordSolve(c) ==
    cw' = [cw EXCEPT !.called = TRUE, !.status = c.status, !.w = c.w,
                     !.A = c.A, !.b = c.b]

CallComputeWeight ==
    /\ ~cw.called
    /\ RecordSolve(compute_weight(cw.r, cw.ytr, cw.mask))
    /\ UNCHANGED <<nodes, last, prev, hist, evals>>

SolverNext == CallComputeWeight

SolverSpec == SolverInit /\ [][SolverNext]_vars

---------------------------------------------------------------------------
(* Properties.                                                             *)

WeightSet(n) == n.weight.shape # "none"

HySet(n) == n.hy # None

Called == last.inst # 0

LastContext == Contexts[last.ctx]

ChildrenEvaluated(n, X) == \A i \in 1..Len(n.variable) : X[n.variable[i]].hy # None

ChildrenHaveTest(n, X) == \A i \in 1..Len(n.variable) : X[n.variable[i]].hy_test # None

ChildrenLackTest(n, X) == \A i \in 1..Len(n.variable) : X[n.variable[i]].hy_test = None

\* C1: an eval called with weight unset whose compute_weight returns no
\* solution returns failure and leaves weight, hy and hy_test as they were;
\* and a node whose eval has returned has weight and hy both set or both
\* unset.
C1_FailureIsAtomic ==
    /\ ( /\ Called
         /\ ~WeightSet(last.pre)
         /\ ChildrenEvaluated(last.pre, LastContext)
         /\ last.pre.ytr # None
         /\ last.pre.mask # None
         /\ compute_weight(Regressors(last.pre.variant, ChildHy(last.pre, LastContext)),
                           last.pre.ytr, last.pre.mask).status = "none" )
       => ( /\ last.outcome = "failure"
            /\ last.post.weight = last.pre.weight
            /\ last.post.hy = last.pre.hy
            /\ last.post.hy_test = last.pre.hy_test )
    /\ last.outcome = "failure" => last.post = last.pre
    /\ \A i \in 1..Len(nodes) :
          (hist[i].failed \/ hist[i].okctx # 0)
             => (WeightSet(nodes[i]) <=> HySet(nodes[i]))

\* a fit has failed on a three-child node and left it without weight and hy
C1_Witness ==
    /\ last.outcome = "failure"
    /\ last.pre.variant = "If"
    /\ ~WeightSet(nodes[last.inst])
    /\ ~HySet(nodes[last.inst])

\* C2: an eval of a node whose weight is set, by the constructor or by an
\* earlier fit, keeps the weight and does not call compute_weight.
C2_WeightSetOnce ==
    (Called /\ WeightSet(last.pre))
       => (last.post.weight = last.pre.weight /\ ~last.solved)

\* a node fitted by one eval is evaluated again in another context
C2_Witness ==
    /\ prev.inst = last.inst
    /\ prev.solved
    /\ prev.outcome = "success"
    /\ last.pre = prev.post
    /\ last.ctx # prev.ctx
    /\ last.outcome = "success"

\* C3: after a successful eval of a Function variant in a context where its
\* own children all expose a test split, hy_test is the raw transform of the
\* children's test Signals scaled by the weight that produced hy.
C3_TestSplitFromChildren ==
    ( /\ Called
      /\ last.outcome = "success"
      /\ last.pre.variant # "Variable"
      /\ ChildrenHaveTest(last.pre, LastContext) )
       => ( /\ last.post.hy = Output(last.pre.variant, ChildHy(last.pre, LastContext),
                                     last.post.weight)
            /\ last.post.hy_test = Output(last.pre.variant,
                                          ChildHyTest(last.pre, LastContext),
                                          last.post.weight) )

\* C4: every eval call finishes with success or failure, never by raising.
C4_NeverRaises == last.outcome # "raise"

\* C5: once an eval of an instance has returned failure, no eval of that
\* instance has succeeded or set weight or hy.
C5_FailedIsTerminal ==
    \A i \in 1..Len(nodes) :
        hist[i].failed
           => (hist[i].okctx = 0 /\ ~WeightSet(nodes[i]) /\ ~HySet(nodes[i]))

\* C5 as amended: a failed eval leaves the node unweighted, the same eval
\* repeated in the same context fails again, and no eval of a weighted node
\* returns failure.
C5_FailureNotStored ==
    /\ last.outcome = "failure" => (~WeightSet(last.post) /\ ~HySet(last.post))
    /\ ( /\ Called
         /\ prev.inst = last.inst
         /\ prev.outcome = "failure"
         /\ last.pre = prev.post
         /\ last.ctx = prev.ctx )
       => last.outcome = "failure"
    /\ (Called /\ WeightSet(last.pre)) => last.outcome # "failure"

\* an eval that failed is repeated in the same context and fails again
C5_Witness ==
    /\ prev.inst = last.inst
    /\ prev.outcome = "failure"
    /\ last.pre = prev.post
    /\ last.ctx = prev.ctx
    /\ last.outcome = "failure"

\* the children of n hold the same Signals, train and test, in X and in Y
SameChildSignals(n, X, Y) ==
    \A i \in 1..Len(n.variable) : X[n.variable[i]] = Y[n.variable[i]]

\* C6: the tostore() snapshot of a successfully evaluated node, evaluated in
\* a context giving the same children's Signals, returns success, reproduces
\* the original hy and makes no call to compute_weight.
C6_RoundTrip ==
    ( /\ Len(nodes) = 2
      /\ last.inst = 2
      /\ last.post = nodes[2]
      /\ hist[1].lastout = "success"
      /\ nodes[2].variant = nodes[1].variant
      /\ nodes[2].variable = nodes[1].variable
      /\ nodes[2].weight = nodes[1].weight
      /\ SameChildSignals(nodes[1], Contexts[hist[1].okctx], LastContext) )
       => ( /\ last.outcome = "success"
            /\ nodes[2].hy = nodes[1].hy
            /\ ~last.solved )

Dot(a, b) == SigSum(SigMul(a, b))

MatVec(A, w) ==
    [i \in 1..Len(A) |-> SigSum([j \in 1..Len(A) |-> NumMul(A[i][j], w[j])])]

\* C7: compute_weight returns no solution when an entry of A or b is
\* non-finite, when a regressor holds a non-finite value at any row, and when
\* A is singular (two dependent regressors, a regressor zero on every
\* unmasked row); otherwise it returns w of length k with A w = b.
C7_SolverOutcome ==
    cw.called =>
       LET k == Len(cw.r)
           nonFiniteSystem ==
              \/ \E i \in 1..k : \E j \in 1..k : ~IsFinite(cw.A[i][j])
              \/ \E i \in 1..k : ~IsFinite(cw.b[i])
           nonFiniteRegressor ==
              \E i \in 1..k : \E row \in 1..Len(cw.r[i]) : ~IsFinite(cw.r[i][row])
           dependent ==
              \E i \in 1..k : \E j \in 1..k :
                 i # j /\ \E c \in 1..2 : cw.r[i] = Scale(cw.r[j], Num(c))
           zeroRegressor ==
              \E i \in 1..k : \A row \in 1..Len(cw.r[i]) :
                 IsZero(NumMul(cw.r[i][row], cw.mask[row]))
           singular == Det(cw.A) = Num(0)
       IN  /\ nonFiniteSystem => cw.status = "none"
           /\ nonFiniteRegressor => cw.status = "none"
           /\ (singular \/ dependent \/ zeroRegressor) => cw.status = "none"
           /\ (~nonFiniteSystem /\ ~singular)
                 => ( /\ cw.status = "ok"
                      /\ Len(cw.w) = k
                      /\ \A i \in 1..k : IsFinite(cw.w[i])
                      /\ MatVec(cw.A, cw.w) = cw.b )

\* a finite system of two dependent regressors is refused
C7_Witness ==
    /\ cw.called
    /\ Len(cw.r) = 2
    /\ cw.r[2] = Scale(cw.r[1], Num(2))
    /\ AllFinite(cw.A, cw.b)
    /\ cw.status = "none"

\* C8: A and b are both built from the masked regressors:
\* A[i,j] = dot(r_i * m, r_j * m) and b[i] = dot(r_i * m, ytr), here for the
\* calls that return a weight.
C8_MaskBeforeAandB ==
    (cw.called /\ cw.status = "ok") =>
       \A i \in 1..Len(cw.r) :
          /\ cw.b[i] = Dot(SigMul(cw.r[i], cw.mask), cw.ytr)
          /\ \A j \in 1..Len(cw.r) :
                cw.A[i][j] = Dot(SigMul(cw.r[i], cw.mask), SigMul(cw.r[j], cw.mask))

\* C9: a fit stores the scalar w[0] in every variant but Add, which stores
\* one entry per child; a Variable fitted against its own column has the
\* scalar 1 as weight.
C9_WeightShape ==
    (Called /\ last.solved /\ last.outcome = "success") =>
       LET n == last.pre
           w == compute_weight(Regressors(n.variant, ChildHy(n, LastContext)),
                               n.ytr, n.mask).w
       IN  /\ n.variant # "Add" => last.post.weight = Scalar(w[1])
           /\ n.variant = "Add" =>
                 (last.post.weight.shape = "vector"
                    /\ Len(last.post.weight.v) = Len(n.variable))
           /\ (n.variant = "Variable" /\ n.ytr = ChildHy(n, LastContext)[1]
                 /\ \A row \in 1..Len(n.mask) : n.mask[row] = Num(1))
                 => last.post.weight = Scalar(Num(1))

\* C10: hy and hy_test both describe the context of the most recent
\* successful eval: hy_test is unset when that context's children expose no
\* test split, and is the transform of its test Signals when they do.  (Div
\* is left out: its hy_test guard is the subject of C3.)
C10_TestSplitFollowsHy ==
    \A i \in 1..Len(nodes) :
        (hist[i].lastout = "success" /\ nodes[i].variant # "Div") =>
           LET n == nodes[i]
               X == Contexts[hist[i].okctx]
           IN  /\ n.hy = Output(n.variant, ChildHy(n, X), n.weight)
               /\ ChildrenLackTest(n, X) => n.hy_test = None
               /\ ChildrenHaveTest(n, X)
                     => n.hy_test = Output(n.variant, ChildHyTest(n, X), n.weight)

====
